---- MODULE Spec2Model ----
(***************************************************************************)
(* The Warehouse API (backend/api/views.py, backend/api/permissions.py,     *)
(* backend/api/tasks.py, backend/warehouse/models.py): the stock            *)
(* consistency core, the catalogue and record endpoints around it, the     *)
(* access guard and the low-stock task.                                    *)
(*                                                                         *)
(* The database runs in Django's autocommit mode: views.py opens no        *)
(* transaction and takes no row lock, so every ORM call of a handler is    *)
(* one atomic database step and the calls of concurrent requests           *)
(* interleave.  A request handler is therefore a short process; each       *)
(* action below is one ORM call together with the Python code around it.   *)
(***************************************************************************)
EXTENDS Integers, Sequences, FiniteSets, TLC

(* ---------------------------- bounds ----------------------------------- *)
MaxRequests == 3          \* requests issued in one behaviour

(* --------------------------- fixtures ---------------------------------- *)
Workers == {1, 2}                     \* request-handling threads of the server
Products == {1}                       \* Product rows (ids)
Warehouses == {1, 2}                  \* Warehouse rows (ids)
Quantities == {1, 2}                  \* quantities the well-formed requests ask for
\* an id no Product / Warehouse row has
AbsentId == CHOOSE i \in 1..9 : i \notin Products \cup Warehouses
ProductWarehouse == [p \in Products |-> 1]     \* Product.warehouse
ProductMinStock == [p \in Products |-> 1]      \* Product.min_stock
ProductSku == [p \in Products |-> "KB001"]     \* Product.sku
ProductCategory == [p \in Products |-> 1]      \* Product.category
Categories == {1}                     \* Category rows (ids)

OPERATION_CHOICES == {"in", "out", "transfer"}

VARIABLES
    stock_balances,     \* table warehouse_stockbalance: Seq of rows, id = index
    stock_movements,    \* table warehouse_stockmovement (the ledger)
    stock_transfers,    \* table warehouse_stocktransfer
    pc,                 \* per worker: position inside the handler
    request,            \* per worker: the request being handled
    local,              \* per worker: the handler's Python locals
    response,           \* per worker: the Response returned
    issued,             \* number of requests received so far
    products,           \* table warehouse_product: Seq of rows, id = index
    warehouses,         \* table warehouse_warehouse: the ids of its rows
    categories,         \* table warehouse_category: the ids of its rows
    orders,             \* table warehouse_order
    inventories,        \* table warehouse_inventory
    audit_logs,         \* table warehouse_auditlog
    notifications,      \* table warehouse_notification
    celery,             \* number of notify_low_stock tasks queued at the broker
    outage,             \* the collaborator that is down: "none", "cache", "broker"
    has_permission      \* per worker: what HasRole.has_permission returned

vars == <<stock_balances, stock_movements, stock_transfers,
          pc, request, local, response, issued,
          products, warehouses, categories, orders, inventories,
          audit_logs, notifications, celery, outage, has_permission>>

db == <<stock_balances, stock_movements, stock_transfers>>

catalog == <<products, warehouses, categories>>

\* what the stock handlers never write
nonstock == <<catalog, orders, inventories, audit_logs, notifications,
              outage, has_permission>>

(* --------------------------- tables ------------------------------------ *)
\* Ids come from a database sequence and are never reused: a deleted row
\* leaves a marker at its index that no query matches.
DeletedProduct == [sku |-> "", warehouse |-> 0, min_stock |-> 0, category |-> 0]

\* Product.objects.all(): the ids of the rows
ProductIds == {i \in 1..Len(products) : products[i] # DeletedProduct}

DeletedMovement ==
    [product |-> 0, warehouse |-> 0, operation |-> "deleted", quantity |-> 0,
     created_by |-> "none"]

DeletedBalance == [product |-> 0, warehouse |-> 0, quantity |-> 0]

DeletedTransfer ==
    [product |-> 0, from_warehouse |-> 0, to_warehouse |-> 0, quantity |-> 0,
     created_by |-> "none"]

\* StockTransfer.objects.all(): the ids of the rows
TransferIds ==
    {i \in 1..Len(stock_transfers) : stock_transfers[i] # DeletedTransfer}

DeletedOrder ==
    [product |-> 0, type |-> "deleted", quantity |-> 0, status |-> "deleted",
     created_by |-> "none"]

\* Order.objects.all(): the ids of the rows
OrderIds == {i \in 1..Len(orders) : orders[i] # DeletedOrder}

DeletedInventory ==
    [warehouse |-> 0, product |-> 0, recorded_quantity |-> 0,
     actual_quantity |-> 0, discrepancy |-> 0, created_by |-> "none"]

\* Inventory.objects.all(): the ids of the rows
InventoryIds == {i \in 1..Len(inventories) : inventories[i] # DeletedInventory}

(* ------------------------- ORM helpers --------------------------------- *)
RECURSIVE SumQuantity(_)
\* Sum('quantity') over the rows whose ids are in ids
SumQuantity(ids) ==
    IF ids = {} THEN 0
    ELSE LET i == CHOOSE x \in ids : TRUE
         IN  stock_balances[i].quantity + SumQuantity(ids \ {i})

\* StockBalance.objects.filter(product=p, warehouse=w)
BalanceRows(p, w) ==
    {i \in 1..Len(stock_balances) :
        stock_balances[i].product = p /\ stock_balances[i].warehouse = w}

\* .aggregate(total=Sum('quantity'))['total'] or 0
\* (the aggregate of no row is None, which `or 0` turns into 0)
BalanceTotal(p, w) ==
    IF BalanceRows(p, w) = {} THEN 0 ELSE SumQuantity(BalanceRows(p, w))

\* the sufficiency test with an off-by-one slip
InsufficientStockOffByOne(balance, quantity) == balance + 1 < quantity

\* `if balance < data['quantity']` of both handlers
InsufficientStock(balance, quantity) == balance < quantity

\* a plain IntegerField: the database accepts any quantity
PlainIntegerField(q) == TRUE

\* quantity = PositiveIntegerField(...): negative values are refused by the
\* database when the row is written (IntegrityError / DataError)
PositiveIntegerField(q) == q >= 0

\* validators=[MinValueValidator(1)] of StockMovement.quantity and
\* StockTransfer.quantity, run by the serializers
MinValueValidator(q) == q >= 1

\* StockBalance.objects.get_or_create(product=p, warehouse=w,
\*                                    defaults={'quantity': 0}):
\* the table after the call
GetOrCreateTable(p, w) ==
    IF BalanceRows(p, w) # {} THEN stock_balances
    ELSE Append(stock_balances, [product |-> p, warehouse |-> w, quantity |-> 0])

\* ... and the model instance it returns
GetOrCreateObject(p, w) ==
    IF BalanceRows(p, w) # {}
    THEN LET i == CHOOSE x \in BalanceRows(p, w) :
                      \A y \in BalanceRows(p, w) : x <= y
         IN  [id |-> i, quantity |-> stock_balances[i].quantity]
    ELSE [id |-> Len(stock_balances) + 1, quantity |-> 0]

\* instance.save() of an existing StockBalance: UPDATE ... WHERE id = obj.id
SaveBalance(obj) ==
    [stock_balances EXCEPT ![obj.id].quantity = obj.quantity]

(* ------------------------- permissions --------------------------------- *)
\* CanManageProducts.has_permission and the role test at the top of
\* StockIncomeOutcomeView.post
CanManageProducts(role) == role \in {"admin", "warehouse_manager", "clerk"}

\* the role test at the top of StockTransferListCreateView.post
CanTransfer(role) == role \in {"admin", "warehouse_manager", "logistician"}

\* User.ROLE_CHOICES
ROLE_CHOICES == {"admin", "warehouse_manager", "clerk", "logistician", "analyst"}

\* HasRole.has_permission(request, view) for request.user = user and
\* view.action = action
HasRole(user, action) ==
    IF ~user.is_authenticated THEN FALSE
    ELSE IF user.is_superuser THEN TRUE
    ELSE IF action \in {"list", "retrieve"}
    THEN user.role \in {"admin", "warehouse_manager", "clerk", "logistician",
                        "analyst"}
    ELSE IF action \in {"create", "update", "partial_update", "destroy"}
    THEN user.role \in {"admin", "warehouse_manager", "clerk", "logistician"}
    ELSE FALSE

(* ------------------------- serializers --------------------------------- *)
\* PrimaryKeyRelatedField(queryset=Product.objects.all()) and
\* PrimaryKeyRelatedField(queryset=Warehouse.objects.all()) refuse an id
\* that has no row
StockMovementSerializerIsValid(req) ==
    /\ req.product \in ProductIds
    /\ req.warehouse \in warehouses
    /\ req.operation \in OPERATION_CHOICES
    /\ MinValueValidator(req.quantity)

StockTransferSerializerIsValid(req) ==
    /\ req.product \in ProductIds
    /\ req.warehouse \in warehouses
    /\ req.to_warehouse \in warehouses
    /\ MinValueValidator(req.quantity)

(* --------------------------- requests ---------------------------------- *)
NoObject == [id |-> 0, quantity |-> 0]

\* a handler's locals: balance (the aggregate read by the sufficiency test),
\* instance (id of the row serializer.save() inserted, 0 before it),
\* stock_balance / from_balance / to_balance (the StockBalance instances in
\* memory), saves (how many of its balance save() calls have completed)
NoLocal == [balance |-> 0, instance |-> 0, stock_balance |-> NoObject,
            from_balance |-> NoObject, to_balance |-> NoObject, saves |-> 0]

NoRequest == [view |-> "none", role |-> "none", product |-> 0, warehouse |-> 0,
              to_warehouse |-> 0, operation |-> "none", quantity |-> 0]

NoResponse == [status |-> 0, error |-> "none"]

\* POST bodies of the stock movement endpoint: every well-formed body sent by
\* a role the endpoint admits, and one sample body per way of being refused
SampleMovement ==
    [view |-> "movement", role |-> "clerk", product |-> 1, warehouse |-> 1,
     to_warehouse |-> 0, operation |-> "in", quantity |-> 1]

MovementRequests ==
    [view : {"movement"}, role : {"clerk"}, product : Products,
     warehouse : Warehouses, to_warehouse : {0},
     operation : {"in", "out"}, quantity : Quantities]
    \cup {[SampleMovement EXCEPT !.operation = "transfer"],
          [SampleMovement EXCEPT !.role = "analyst"],
          [SampleMovement EXCEPT !.product = AbsentId],
          [SampleMovement EXCEPT !.warehouse = AbsentId],
          [SampleMovement EXCEPT !.operation = "move"],
          [SampleMovement EXCEPT !.quantity = 0]}

\* POST bodies of the stock transfer endpoint (warehouse = from_warehouse)
SampleTransfer ==
    [view |-> "transfer", role |-> "logistician", product |-> 1, warehouse |-> 1,
     to_warehouse |-> 2, operation |-> "none", quantity |-> 1]

TransferRequests ==
    {r \in [view : {"transfer"}, role : {"logistician"}, product : Products,
            warehouse : Warehouses, to_warehouse : Warehouses,
            operation : {"none"}, quantity : Quantities] :
        r.warehouse = r.to_warehouse => r.warehouse = SampleTransfer.warehouse}
    \cup {[SampleTransfer EXCEPT !.role = "clerk"],
          [SampleTransfer EXCEPT !.product = AbsentId],
          [SampleTransfer EXCEPT !.warehouse = AbsentId],
          [SampleTransfer EXCEPT !.quantity = 0]}

Respond(w, status, error) ==
    /\ pc' = [pc EXCEPT ![w] = "done"]
    /\ response' = [response EXCEPT ![w] = [status |-> status, error |-> error]]

\* the tail of a successful handler: cache.delete_pattern(...),
\* notify_low_stock.delay(), return Response(..., 201).  delete_pattern raises
\* while the cache server is down and delay() raises while the broker is down;
\* the handler's `except Exception` then answers 500 with its message.
InvalidateAndNotify(w, error) ==
    IF outage = "none"
    THEN /\ celery' = celery + 1
         /\ Respond(w, 201, "none")
    ELSE /\ UNCHANGED celery
         /\ Respond(w, 500, error)

\* the tail of a handler that only dispatches the task: notify_low_stock.delay(),
\* return Response(..., status)
NotifyAndRespond(w, status, error) ==
    IF outage # "broker"
    THEN /\ celery' = celery + 1
         /\ Respond(w, status, "none")
    ELSE /\ UNCHANGED celery
         /\ Respond(w, 500, error)

Init ==
    /\ stock_balances = <<>>
    /\ stock_movements = <<>>
    /\ stock_transfers = <<>>
    /\ pc = [w \in Workers |-> "idle"]
    /\ request = [w \in Workers |-> NoRequest]
    /\ local = [w \in Workers |-> NoLocal]
    /\ response = [w \in Workers |-> NoResponse]
    /\ issued = 0
    /\ products = [p \in Products |->
                      [sku |-> ProductSku[p], warehouse |-> ProductWarehouse[p],
                       min_stock |-> ProductMinStock[p],
                       category |-> ProductCategory[p]]]
    /\ warehouses = Warehouses
    /\ categories = Categories
    /\ orders = <<>>
    /\ inventories = <<>>
    /\ audit_logs = <<>>
    /\ notifications = <<>>
    /\ celery = 0
    /\ outage = "none"
    /\ has_permission = [w \in Workers |-> FALSE]

\* a request is handed to a free worker thread; free threads are
\* interchangeable, so the lowest one takes it
Free(w) == pc[w] \in {"idle", "done"}

Receive(w, req) ==
    /\ Free(w)
    /\ \A v \in Workers : v < w => ~Free(v)
    /\ issued < MaxRequests
    /\ issued' = issued + 1
    /\ request' = [request EXCEPT ![w] = req]
    /\ local' = [local EXCEPT ![w] = NoLocal]

(* ---------------- StockIncomeOutcomeView.post -------------------------- *)
\* role test, serializer.is_valid(), Product.objects.get, Warehouse.objects.get
MovementPost(w, req) ==
    /\ Receive(w, req)
    /\ IF ~CanManageProducts(req.role)
       THEN Respond(w, 403, "Permission denied")
       ELSE IF ~StockMovementSerializerIsValid(req)
       THEN Respond(w, 400, "invalid")
       ELSE IF req.product \notin ProductIds
       THEN Respond(w, 404, "Product not found")
       ELSE IF req.warehouse \notin warehouses
       THEN Respond(w, 404, "Warehouse not found")
       ELSE /\ pc' = [pc EXCEPT ![w] =
                        IF req.operation = "out" THEN "check_balance"
                                                 ELSE "serializer_save"]
            /\ response' = [response EXCEPT ![w] = NoResponse]
    /\ UNCHANGED <<db, nonstock, celery>>

\* if data['operation'] == 'out': balance = ...aggregate...; if balance < quantity
MovementCheckBalance(w) ==
    /\ pc[w] = "check_balance"
    /\ request[w].view = "movement"
    /\ LET balance == BalanceTotal(request[w].product, request[w].warehouse)
       IN  /\ local' = [local EXCEPT ![w].balance = balance]
           /\ IF InsufficientStock(balance, request[w].quantity)
              THEN Respond(w, 400, "Insufficient stock")
              ELSE /\ pc' = [pc EXCEPT ![w] = "serializer_save"]
                   /\ UNCHANGED response
    /\ UNCHANGED <<db, request, issued, nonstock, celery>>

\* serializer.save(): INSERT of the ledger entry; created_by is a read-only
\* serializer field, so the entry is stored without a creator
MovementSerializerSave(w) ==
    /\ pc[w] = "serializer_save"
    /\ request[w].view = "movement"
    /\ stock_movements' = Append(stock_movements,
            [product |-> request[w].product, warehouse |-> request[w].warehouse,
             operation |-> request[w].operation, quantity |-> request[w].quantity,
             created_by |-> "none"])
    /\ local' = [local EXCEPT ![w].instance = Len(stock_movements) + 1]
    /\ pc' = [pc EXCEPT ![w] = "get_or_create"]
    /\ UNCHANGED <<stock_balances, stock_transfers, request, response, issued,
                   nonstock, celery>>

\* stock_balance, created = StockBalance.objects.get_or_create(...)
MovementGetOrCreate(w) ==
    /\ pc[w] = "get_or_create"
    /\ request[w].view = "movement"
    /\ stock_balances' = GetOrCreateTable(request[w].product, request[w].warehouse)
    /\ local' = [local EXCEPT ![w].stock_balance =
                    GetOrCreateObject(request[w].product, request[w].warehouse)]
    /\ pc' = [pc EXCEPT ![w] = "balance_save"]
    /\ UNCHANGED <<stock_movements, stock_transfers, request, response, issued,
                   nonstock, celery>>

\* the quantity the handler computes for the row before stock_balance.save()
MovementNewQuantity(op, old, q) ==
    IF op = "in" THEN old + q
    ELSE IF op = "out" THEN old - q
    ELSE old

\* stock_balance.quantity +=/-= quantity; stock_balance.save(); cache
\* invalidation, notify_low_stock.delay(), Response 201.  A refused write
\* raises, and `except Exception` answers 500.
MovementBalanceSave(w) ==
    /\ pc[w] = "balance_save"
    /\ request[w].view = "movement"
    /\ LET obj == [local[w].stock_balance EXCEPT !.quantity =
                      MovementNewQuantity(request[w].operation,
                                          local[w].stock_balance.quantity,
                                          request[w].quantity)]
       IN  IF PositiveIntegerField(obj.quantity)
           THEN /\ stock_balances' = SaveBalance(obj)
                /\ local' = [local EXCEPT ![w].stock_balance = obj,
                                          ![w].saves = 1]
                /\ InvalidateAndNotify(w, "Failed to process stock operation")
           ELSE /\ UNCHANGED <<stock_balances, celery>>
                /\ local' = [local EXCEPT ![w].stock_balance = obj]
                /\ Respond(w, 500, "Failed to process stock operation")
    /\ UNCHANGED <<stock_movements, stock_transfers, request, issued, nonstock>>

(* --------------- StockTransferListCreateView.post ---------------------- *)
\* role test, serializer.is_valid(), Product.objects.get, Warehouse.objects.get
TransferPost(w, req) ==
    /\ Receive(w, req)
    /\ IF ~CanTransfer(req.role)
       THEN Respond(w, 403, "Permission denied")
       ELSE IF ~StockTransferSerializerIsValid(req)
       THEN Respond(w, 400, "invalid")
       ELSE IF req.product \notin ProductIds
       THEN Respond(w, 404, "Product not found")
       ELSE IF req.warehouse \notin warehouses
       THEN Respond(w, 404, "Warehouse not found")
       ELSE /\ pc' = [pc EXCEPT ![w] = "check_balance"]
            /\ response' = [response EXCEPT ![w] = NoResponse]
    /\ UNCHANGED <<db, nonstock, celery>>

\* balance = ...aggregate...; if balance < request.data['quantity']
TransferCheckBalance(w) ==
    /\ pc[w] = "check_balance"
    /\ request[w].view = "transfer"
    /\ LET balance == BalanceTotal(request[w].product, request[w].warehouse)
       IN  /\ local' = [local EXCEPT ![w].balance = balance]
           /\ IF InsufficientStock(balance, request[w].quantity)
              THEN Respond(w, 400, "Insufficient stock in source warehouse")
              ELSE /\ pc' = [pc EXCEPT ![w] = "serializer_save"]
                   /\ UNCHANGED response
    /\ UNCHANGED <<db, request, issued, nonstock, celery>>

\* serializer.save(created_by=request.user): INSERT of the StockTransfer
TransferSerializerSave(w) ==
    /\ pc[w] = "serializer_save"
    /\ request[w].view = "transfer"
    /\ stock_transfers' = Append(stock_transfers,
            [product |-> request[w].product,
             from_warehouse |-> request[w].warehouse,
             to_warehouse |-> request[w].to_warehouse,
             quantity |-> request[w].quantity,
             created_by |-> request[w].role])
    /\ local' = [local EXCEPT ![w].instance = Len(stock_transfers) + 1]
    /\ pc' = [pc EXCEPT ![w] = "get_or_create_from"]
    /\ UNCHANGED <<stock_balances, stock_movements, request, response, issued,
                   nonstock, celery>>

\* from_balance, _ = StockBalance.objects.get_or_create(... from_warehouse ...)
TransferGetOrCreateFrom(w) ==
    /\ pc[w] = "get_or_create_from"
    /\ stock_balances' = GetOrCreateTable(request[w].product, request[w].warehouse)
    /\ local' = [local EXCEPT ![w].from_balance =
                    GetOrCreateObject(request[w].product, request[w].warehouse)]
    /\ pc' = [pc EXCEPT ![w] = "get_or_create_to"]
    /\ UNCHANGED <<stock_movements, stock_transfers, request, response, issued,
                   nonstock, celery>>

\* to_balance, _ = StockBalance.objects.get_or_create(... to_warehouse ...)
TransferGetOrCreateTo(w) ==
    /\ pc[w] = "get_or_create_to"
    /\ stock_balances' = GetOrCreateTable(request[w].product, request[w].to_warehouse)
    /\ local' = [local EXCEPT ![w].to_balance =
                    GetOrCreateObject(request[w].product, request[w].to_warehouse)]
    /\ pc' = [pc EXCEPT ![w] = "from_save"]
    /\ UNCHANGED <<stock_movements, stock_transfers, request, response, issued,
                   nonstock, celery>>

\* from_balance.quantity -= quantity; to_balance.quantity += quantity;
\* from_balance.save()
TransferFromSave(w) ==
    /\ pc[w] = "from_save"
    /\ LET from == [local[w].from_balance EXCEPT !.quantity = @ - request[w].quantity]
           to == [local[w].to_balance EXCEPT !.quantity = @ + request[w].quantity]
       IN  IF PositiveIntegerField(from.quantity)
           THEN /\ stock_balances' = SaveBalance(from)
                /\ local' = [local EXCEPT ![w].from_balance = from,
                                          ![w].to_balance = to,
                                          ![w].saves = 1]
                /\ pc' = [pc EXCEPT ![w] = "to_save"]
                /\ UNCHANGED response
           ELSE /\ UNCHANGED stock_balances
                /\ local' = [local EXCEPT ![w].from_balance = from,
                                          ![w].to_balance = to]
                /\ Respond(w, 500, "Failed to create transfer")
    /\ UNCHANGED <<stock_movements, stock_transfers, request, issued,
                   nonstock, celery>>

\* to_balance.save(); cache invalidation, notify_low_stock.delay(), Response 201
TransferToSave(w) ==
    /\ pc[w] = "to_save"
    /\ IF PositiveIntegerField(local[w].to_balance.quantity)
       THEN /\ stock_balances' = SaveBalance(local[w].to_balance)
            /\ local' = [local EXCEPT ![w].saves = 2]
            /\ InvalidateAndNotify(w, "Failed to create transfer")
       ELSE /\ UNCHANGED <<stock_balances, local, celery>>
            /\ Respond(w, 500, "Failed to create transfer")
    /\ UNCHANGED <<stock_movements, stock_transfers, request, issued, nonstock>>

(* ------------- QuerySet.get_or_create, statement by statement ---------- *)
\* the three get_or_create calls of the stock handlers: the position of the
\* call, the request field that names the warehouse, the local that takes the
\* object, the position between the SELECT and the INSERT, the position after
GetOrCreateCalls ==
    {[at |-> "get_or_create", warehouse |-> "warehouse",
      object |-> "stock_balance", insert |-> "create", then |-> "balance_save"],
     [at |-> "get_or_create_from", warehouse |-> "warehouse",
      object |-> "from_balance", insert |-> "create_from",
      then |-> "get_or_create_to"],
     [at |-> "get_or_create_to", warehouse |-> "to_warehouse",
      object |-> "to_balance", insert |-> "create_to", then |-> "from_save"]}

\* INSERT INTO warehouse_stockbalance with no unique index on the pair
NoUniqueTogether(p, w) == TRUE

\* StockBalance.Meta.unique_together = ('product', 'warehouse'): the INSERT
\* is accepted when no row has the pair
UniqueTogether(p, w) == BalanceRows(p, w) = {}

\* get_or_create, first statement: self.get(product=..., warehouse=...).  A
\* row found is returned; DoesNotExist sends the call on to the INSERT.
BalanceGet(w) ==
    \E call \in GetOrCreateCalls :
        /\ pc[w] = call.at
        /\ LET p == request[w].product
               wh == request[w][call.warehouse]
           IN  IF BalanceRows(p, wh) # {}
               THEN /\ local' = [local EXCEPT ![w][call.object] =
                                     GetOrCreateObject(p, wh)]
                    /\ pc' = [pc EXCEPT ![w] = call.then]
               ELSE /\ pc' = [pc EXCEPT ![w] = call.insert]
                    /\ UNCHANGED local
        /\ UNCHANGED <<db, request, response, issued, nonstock, celery>>

\* get_or_create, after DoesNotExist: self.create(...) inside a savepoint; the
\* IntegrityError of the unique index is caught and answered by self.get(...)
BalanceCreate(w) ==
    \E call \in GetOrCreateCalls :
        /\ pc[w] = call.insert
        /\ LET p == request[w].product
               wh == request[w][call.warehouse]
           IN  IF UniqueTogether(p, wh)
               THEN /\ stock_balances' =
                          Append(stock_balances,
                                 [product |-> p, warehouse |-> wh, quantity |-> 0])
                    /\ local' = [local EXCEPT ![w][call.object] =
                                     [id |-> Len(stock_balances) + 1,
                                      quantity |-> 0]]
               ELSE /\ UNCHANGED stock_balances
                    /\ local' = [local EXCEPT ![w][call.object] =
                                     GetOrCreateObject(p, wh)]
        /\ pc' = [pc EXCEPT ![w] = call.then]
        /\ UNCHANGED <<stock_movements, stock_transfers, request, response,
                       issued, nonstock, celery>>

\* the stock endpoints with every get_or_create taken as its two statements
NextGetOrCreate ==
    \/ \E w \in Workers : \E req \in MovementRequests : MovementPost(w, req)
    \/ \E w \in Workers : MovementCheckBalance(w)
    \/ \E w \in Workers : MovementSerializerSave(w)
    \/ \E w \in Workers : BalanceGet(w)
    \/ \E w \in Workers : BalanceCreate(w)
    \/ \E w \in Workers : MovementBalanceSave(w)
    \/ \E w \in Workers : \E req \in TransferRequests : TransferPost(w, req)
    \/ \E w \in Workers : TransferCheckBalance(w)
    \/ \E w \in Workers : TransferSerializerSave(w)
    \/ \E w \in Workers : TransferFromSave(w)
    \/ \E w \in Workers : TransferToSave(w)

SpecGetOrCreate == Init /\ [][NextGetOrCreate]_vars

(* ------------------------ LowStockView.get ----------------------------- *)
\* the list low_stock_products built by the loop over Product.objects.all()
LowStockView ==
    {p \in ProductIds :
        BalanceTotal(p, products[p].warehouse) < products[p].min_stock}

\* ProductViewSet.low_stock without warehouse_id:
\* Product.objects.filter(stock_balances__quantity__lte=F('min_stock')), the
\* products joined to a balance row, of any warehouse, at or under min_stock
ProductLowStock ==
    {p \in ProductIds :
        \E i \in 1..Len(stock_balances) :
            /\ stock_balances[i].product = p
            /\ stock_balances[i].quantity <= products[p].min_stock}

(* ----------------------- HasRole.has_permission ------------------------ *)
\* view.action of a viewset: the standard actions, a custom @action such as
\* ProductViewSet.low_stock, and 'metadata' (an OPTIONS request)
ViewActions ==
    {"list", "retrieve", "create", "update", "partial_update", "destroy",
     "low_stock", "metadata"}

\* requests that reach the guard: from a logged-in user of any role, superuser
\* or not, and from AnonymousUser (which has no role)
GuardRequests ==
    [view : {"guarded"}, is_authenticated : {TRUE}, is_superuser : BOOLEAN,
     role : ROLE_CHOICES, action : ViewActions]
    \cup [view : {"guarded"}, is_authenticated : {FALSE}, is_superuser : {FALSE},
          role : {"none"}, action : ViewActions]

\* the framework asks the guard before the view runs
HasPermission(w, req) ==
    /\ Receive(w, req)
    /\ has_permission' = [has_permission EXCEPT ![w] = HasRole(req, req.action)]
    /\ pc' = [pc EXCEPT ![w] = "done"]
    /\ response' = [response EXCEPT ![w] = NoResponse]
    /\ UNCHANGED <<db, catalog, orders, inventories, audit_logs, notifications,
                   celery, outage>>

\* the guard alone
NextGuard ==
    \E w \in Workers : \E req \in GuardRequests : HasPermission(w, req)

SpecGuard == Init /\ [][NextGuard]_vars

(* --------- InventoryListCreateView.post, InventoryDetailView.put ------- *)
\* the counts the well-formed inventory requests report
Counts == {0, 1}

\* Inventory.save() with the discrepancy left as the caller gave it
InventorySaveAsSupplied(row) == row

\* Inventory.save(): self.discrepancy = self.actual_quantity -
\* self.recorded_quantity; super().save()
InventorySave(row) ==
    [row EXCEPT !.discrepancy = row.actual_quantity - row.recorded_quantity]

\* InventorySerializer.is_valid(): warehouse and product must have a row, the
\* two PositiveIntegerFields must be >= 0; discrepancy is a required integer
InventorySerializerIsValid(req) ==
    /\ req.warehouse \in warehouses
    /\ req.product \in ProductIds
    /\ PositiveIntegerField(req.recorded_quantity)
    /\ PositiveIntegerField(req.actual_quantity)

\* the role test of the inventory endpoints
CanCountInventory(role) == role \in {"admin", "warehouse_manager"}

\* bodies sent to the inventory endpoints (pk is the id in the URL of a PUT)
SampleInventory ==
    [view |-> "inventory_post", role |-> "warehouse_manager", pk |-> 0,
     warehouse |-> 1, product |-> 1, recorded_quantity |-> 1,
     actual_quantity |-> 0, discrepancy |-> 0]

InventoryPostRequests ==
    [view : {"inventory_post"}, role : {"warehouse_manager"}, pk : {0},
     warehouse : {SampleInventory.warehouse}, product : Products,
     recorded_quantity : Counts, actual_quantity : Counts, discrepancy : Counts]
    \cup {[SampleInventory EXCEPT !.role = "clerk"],
          [SampleInventory EXCEPT !.product = AbsentId],
          [SampleInventory EXCEPT !.actual_quantity = -1]}

InventoryPutRequests ==
    [view : {"inventory_put"}, role : {"warehouse_manager"}, pk : {1, 2},
     warehouse : {SampleInventory.warehouse}, product : Products,
     recorded_quantity : Counts, actual_quantity : Counts, discrepancy : Counts]
    \cup {[SampleInventory EXCEPT !.view = "inventory_put", !.pk = 1, !.role = "clerk"],
          [SampleInventory EXCEPT !.view = "inventory_put", !.pk = 1,
                                  !.recorded_quantity = -1]}

\* the Inventory instance a request body describes
InventoryOf(req, created_by) ==
    [warehouse |-> req.warehouse, product |-> req.product,
     recorded_quantity |-> req.recorded_quantity,
     actual_quantity |-> req.actual_quantity,
     discrepancy |-> req.discrepancy, created_by |-> created_by]

\* what the inventory handlers never write
noninventory == <<db, catalog, orders, audit_logs, notifications,
                  outage, has_permission>>

\* role test (answered 400, not 403) and serializer.is_valid()
InventoryPost(w, req) ==
    /\ Receive(w, req)
    /\ IF ~CanCountInventory(req.role)
       THEN Respond(w, 400, "Permission denied")
       ELSE IF ~InventorySerializerIsValid(req)
       THEN Respond(w, 400, "invalid")
       ELSE /\ pc' = [pc EXCEPT ![w] = "inventory_create"]
            /\ response' = [response EXCEPT ![w] = NoResponse]
    /\ UNCHANGED <<inventories, noninventory, celery>>

\* an inventory create that also reconciles the balance: the StockBalance
\* rows of the counted pair take the counted quantity
InventoryPostSaveReconciling(w) ==
    /\ pc[w] = "inventory_create"
    /\ inventories' = Append(inventories,
                             InventorySave(InventoryOf(request[w], request[w].role)))
    /\ stock_balances' =
          [i \in 1..Len(stock_balances) |->
              IF i \in BalanceRows(request[w].product, request[w].warehouse)
              THEN [stock_balances[i] EXCEPT
                        !.quantity = request[w].actual_quantity]
              ELSE stock_balances[i]]
    /\ local' = [local EXCEPT ![w].instance = Len(inventories) + 1]
    /\ NotifyAndRespond(w, 201, "Failed to create inventory")
    /\ UNCHANGED <<request, issued, stock_movements, stock_transfers, catalog,
                   orders, audit_logs, notifications, outage, has_permission>>

\* serializer.save(created_by=request.user): Inventory.save() and INSERT;
\* notify_low_stock.delay(); Response 201
InventoryPostSave(w) ==
    /\ pc[w] = "inventory_create"
    /\ inventories' = Append(inventories,
                             InventorySave(InventoryOf(request[w], request[w].role)))
    /\ local' = [local EXCEPT ![w].instance = Len(inventories) + 1]
    /\ NotifyAndRespond(w, 201, "Failed to create inventory")
    /\ UNCHANGED <<request, issued, noninventory>>

\* role test, Inventory.objects.get(pk=pk), serializer.is_valid()
InventoryPut(w, req) ==
    /\ Receive(w, req)
    /\ IF ~CanCountInventory(req.role)
       THEN Respond(w, 403, "Permission denied")
       ELSE IF req.pk \notin InventoryIds
       THEN Respond(w, 404, "Inventory not found")
       ELSE IF ~InventorySerializerIsValid(req)
       THEN Respond(w, 400, "invalid")
       ELSE /\ pc' = [pc EXCEPT ![w] = "inventory_update"]
            /\ response' = [response EXCEPT ![w] = NoResponse]
    /\ UNCHANGED <<inventories, noninventory, celery>>

\* serializer.save(): the instance takes the fields of the body, Inventory.save()
\* and UPDATE ... WHERE id = pk; notify_low_stock.delay(); Response 200
InventoryPutSave(w) ==
    /\ pc[w] = "inventory_update"
    /\ inventories' =
          [inventories EXCEPT ![request[w].pk] =
              InventorySave(InventoryOf(request[w], @.created_by))]
    /\ local' = [local EXCEPT ![w].instance = request[w].pk]
    /\ NotifyAndRespond(w, 200, "Failed to update inventory")
    /\ UNCHANGED <<request, issued, noninventory>>

\* the inventory endpoints alone
NextInventory ==
    \/ \E w \in Workers : \E req \in InventoryPostRequests : InventoryPost(w, req)
    \/ \E w \in Workers : InventoryPostSave(w)
    \/ \E w \in Workers : \E req \in InventoryPutRequests : InventoryPut(w, req)
    \/ \E w \in Workers : InventoryPutSave(w)

SpecInventory == Init /\ [][NextInventory]_vars

(* ------------- the delete handlers and ProductViewSet ------------------ *)
\* the role test at the top of every delete handler with the test widened to
\* the warehouse managers
IsAdminOrManager(role) == role \in {"admin", "warehouse_manager"}

\* the role test at the top of every delete handler: request.user.role !=
\* 'admin' is answered 403
IsAdmin(role) == role = "admin"

\* IsAdminOrReadOnly.has_permission for an unsafe method (POST, DELETE) of an
\* authenticated user
IsAdminOrReadOnly(role) == role = "admin"

\* the users that send delete requests
DeleteRoles == {"admin", "warehouse_manager", "clerk"}

\* DELETE requests: view, role of the user and the pk in the URL
DeleteRequests ==
    [view : {"warehouse_delete"}, role : DeleteRoles, pk : Warehouses]
    \cup [view : {"category_delete", "transfer_delete", "order_delete",
                  "inventory_delete", "product_destroy"},
          role : DeleteRoles, pk : {1}]

\* the SKU the product of the fixtures has, and one no product has
Skus == {"KB001", "MS001"}

\* bodies POSTed to /products/
SampleProduct ==
    [view |-> "product_create", role |-> "admin", pk |-> 0, sku |-> "MS001",
     warehouse |-> 1, min_stock |-> 1, category |-> 1]

ProductCreateRequests ==
    [view : {"product_create"}, role : {"admin"}, pk : {0}, sku : Skus,
     warehouse : {SampleProduct.warehouse}, min_stock : {SampleProduct.min_stock},
     category : {SampleProduct.category}]
    \cup {[SampleProduct EXCEPT !.role = "clerk"],
          [SampleProduct EXCEPT !.warehouse = AbsentId]}

\* ProductCreateSerializer.is_valid(): validate_sku (and the UniqueValidator
\* of the unique field) query Product.objects.filter(sku=value).exists();
\* warehouse and category are PrimaryKeyRelatedFields over the tables
ProductCreateSerializerIsValid(req) ==
    /\ \A p \in ProductIds : products[p].sku # req.sku
    /\ req.warehouse \in warehouses
    /\ req.category \in categories
    /\ PositiveIntegerField(req.min_stock)

\* the row INSERT INTO warehouse_product refuses: the unique index on sku and
\* the foreign key to the warehouse
IntegrityError(req) ==
    \/ \E p \in ProductIds : products[p].sku = req.sku
    \/ req.warehouse \notin warehouses

\* Collector.delete(): the rows that go with the products ps and the
\* warehouses ws (on_delete=CASCADE of product, warehouse, from_warehouse,
\* to_warehouse), and the products and warehouses themselves
CascadeDelete(ps, ws) ==
    /\ stock_movements' =
          [i \in 1..Len(stock_movements) |->
              IF \/ stock_movements[i].product \in ps
                 \/ stock_movements[i].warehouse \in ws
              THEN DeletedMovement ELSE stock_movements[i]]
    /\ stock_balances' =
          [i \in 1..Len(stock_balances) |->
              IF \/ stock_balances[i].product \in ps
                 \/ stock_balances[i].warehouse \in ws
              THEN DeletedBalance ELSE stock_balances[i]]
    /\ stock_transfers' =
          [i \in 1..Len(stock_transfers) |->
              IF \/ stock_transfers[i].product \in ps
                 \/ stock_transfers[i].from_warehouse \in ws
                 \/ stock_transfers[i].to_warehouse \in ws
              THEN DeletedTransfer ELSE stock_transfers[i]]
    /\ orders' =
          [i \in 1..Len(orders) |->
              IF orders[i].product \in ps THEN DeletedOrder ELSE orders[i]]
    /\ inventories' =
          [i \in 1..Len(inventories) |->
              IF \/ inventories[i].product \in ps
                 \/ inventories[i].warehouse \in ws
              THEN DeletedInventory ELSE inventories[i]]
    /\ products' =
          [i \in 1..Len(products) |->
              IF i \in ps THEN DeletedProduct ELSE products[i]]
    /\ warehouses' = warehouses \ ws

\* the tail of a delete handler that clears a cache: cache.delete_pattern(...),
\* return Response(status=204); delete_pattern raises while the cache server
\* is down and the handler's `except Exception` answers 500
InvalidateAndRespond(w, error) ==
    IF outage # "cache" THEN Respond(w, 204, "none") ELSE Respond(w, 500, error)

\* the head of a delete handler: the role test, then Model.objects.get(pk=pk)
\* over the ids of the model's table
DeleteHead(w, req, ids, missing) ==
    /\ Receive(w, req)
    /\ IF ~IsAdmin(req.role)
       THEN Respond(w, 403, "Permission denied")
       ELSE IF req.pk \notin ids
       THEN Respond(w, 404, missing)
       ELSE /\ pc' = [pc EXCEPT ![w] = "instance_delete"]
            /\ response' = [response EXCEPT ![w] = NoResponse]
    /\ UNCHANGED <<db, catalog, orders, inventories, audit_logs, notifications,
                   celery, outage, has_permission>>

\* instance.delete() is about to run in the handler of `view`
Deleting(w, view) == pc[w] = "instance_delete" /\ request[w].view = view

\* WarehouseDetailView.delete
WarehouseDelete(w, req) ==
    /\ req.view = "warehouse_delete"
    /\ DeleteHead(w, req, warehouses, "Warehouse not found")

\* warehouse.delete() takes the warehouse's products along (Product.warehouse
\* is on_delete=CASCADE) and everything that refers to either
WarehouseInstanceDelete(w) ==
    /\ Deleting(w, "warehouse_delete")
    /\ CascadeDelete({p \in ProductIds : products[p].warehouse = request[w].pk},
                     {request[w].pk})
    /\ InvalidateAndRespond(w, "Failed to delete warehouse")
    /\ UNCHANGED <<request, local, issued, categories, audit_logs, notifications,
                   celery, outage, has_permission>>

\* CategoryDetailView.delete
CategoryDelete(w, req) ==
    /\ req.view = "category_delete"
    /\ DeleteHead(w, req, categories, "Category not found")

\* category.delete(): Product.category is on_delete=SET_NULL
CategoryInstanceDelete(w) ==
    /\ Deleting(w, "category_delete")
    /\ categories' = categories \ {request[w].pk}
    /\ products' =
          [i \in 1..Len(products) |->
              IF products[i].category = request[w].pk
              THEN [products[i] EXCEPT !.category = 0] ELSE products[i]]
    /\ InvalidateAndRespond(w, "Failed to delete category")
    /\ UNCHANGED <<request, local, issued, db, warehouses, orders, inventories,
                   audit_logs, notifications, celery, outage, has_permission>>

\* StockTransferDetailView.delete
TransferDelete(w, req) ==
    /\ req.view = "transfer_delete"
    /\ DeleteHead(w, req, TransferIds, "Transfer not found")

\* a transfer delete that also books the quantity back: the source rows get
\* it again and the destination rows lose it
TransferInstanceDeleteReversing(w) ==
    /\ Deleting(w, "transfer_delete")
    /\ LET t == stock_transfers[request[w].pk]
       IN  stock_balances' =
             [i \in 1..Len(stock_balances) |->
                 IF i \in BalanceRows(t.product, t.from_warehouse)
                 THEN [stock_balances[i] EXCEPT !.quantity = @ + t.quantity]
                 ELSE IF i \in BalanceRows(t.product, t.to_warehouse)
                 THEN [stock_balances[i] EXCEPT !.quantity = @ - t.quantity]
                 ELSE stock_balances[i]]
    /\ stock_transfers' =
          [stock_transfers EXCEPT ![request[w].pk] = DeletedTransfer]
    /\ InvalidateAndRespond(w, "Failed to delete transfer")
    /\ UNCHANGED <<request, local, issued, stock_movements,
                   catalog, orders, inventories, audit_logs, notifications,
                   celery, outage, has_permission>>

\* transfer.delete(): the row goes, the balances it moved stay as they are
TransferInstanceDelete(w) ==
    /\ Deleting(w, "transfer_delete")
    /\ stock_transfers' =
          [stock_transfers EXCEPT ![request[w].pk] = DeletedTransfer]
    /\ InvalidateAndRespond(w, "Failed to delete transfer")
    /\ UNCHANGED <<request, local, issued, stock_balances, stock_movements,
                   catalog, orders, inventories, audit_logs, notifications,
                   celery, outage, has_permission>>

\* OrderDetailView.delete
OrderDelete(w, req) ==
    /\ req.view = "order_delete"
    /\ DeleteHead(w, req, OrderIds, "Order not found")

\* order.delete(); Response 204
OrderInstanceDelete(w) ==
    /\ Deleting(w, "order_delete")
    /\ orders' = [orders EXCEPT ![request[w].pk] = DeletedOrder]
    /\ Respond(w, 204, "none")
    /\ UNCHANGED <<request, local, issued, db, catalog, inventories, audit_logs,
                   notifications, celery, outage, has_permission>>

\* InventoryDetailView.delete
InventoryDelete(w, req) ==
    /\ req.view = "inventory_delete"
    /\ DeleteHead(w, req, InventoryIds, "Inventory not found")

\* inventory.delete(); Response 204
InventoryInstanceDelete(w) ==
    /\ Deleting(w, "inventory_delete")
    /\ inventories' = [inventories EXCEPT ![request[w].pk] = DeletedInventory]
    /\ Respond(w, 204, "none")
    /\ UNCHANGED <<request, local, issued, db, catalog, orders, audit_logs,
                   notifications, celery, outage, has_permission>>

\* ProductViewSet.create up to perform_create: IsAdminOrReadOnly, then
\* serializer.is_valid(raise_exception=True)
ProductCreate(w, req) ==
    /\ Receive(w, req)
    /\ IF ~IsAdminOrReadOnly(req.role)
       THEN Respond(w, 403, "Permission denied")
       ELSE IF ~ProductCreateSerializerIsValid(req)
       THEN Respond(w, 400, "invalid")
       ELSE /\ pc' = [pc EXCEPT ![w] = "perform_create"]
            /\ response' = [response EXCEPT ![w] = NoResponse]
    /\ UNCHANGED <<db, catalog, orders, inventories, audit_logs, notifications,
                   celery, outage, has_permission>>

\* perform_create: instance = serializer.save().  The INSERT raises
\* IntegrityError when the row is refused; `except Exception` swallows it and
\* returns a Response that ModelViewSet.create drops, so create goes on to
\* return Response(serializer.data, status=201)
ProductPerformCreate(w) ==
    /\ pc[w] = "perform_create"
    /\ IF IntegrityError(request[w])
       THEN /\ Respond(w, 201, "none")
            /\ UNCHANGED <<products, local>>
       ELSE /\ products' = Append(products,
                   [sku |-> request[w].sku, warehouse |-> request[w].warehouse,
                    min_stock |-> request[w].min_stock,
                    category |-> request[w].category])
            /\ local' = [local EXCEPT ![w].instance = Len(products) + 1]
            /\ pc' = [pc EXCEPT ![w] = "log_create"]
            /\ UNCHANGED response
    /\ UNCHANGED <<request, issued, db, warehouses, categories, orders,
                   inventories, audit_logs, notifications, celery, outage,
                   has_permission>>

\* the rest of perform_create: AuditLog.objects.create(action='create_product'),
\* Notification.objects.create(type='general'), notify_low_stock.delay() (a
\* failure of delay() is swallowed as well); Response 201.  The two INSERTs
\* go to tables no handler reads, so they are taken as one step.
ProductLogCreate(w) ==
    /\ pc[w] = "log_create"
    /\ audit_logs' = Append(audit_logs,
           [user |-> request[w].role, action |-> "create_product",
            model_name |-> "Product", object_id |-> local[w].instance])
    /\ notifications' = Append(notifications,
           [user |-> request[w].role, message |-> local[w].instance,
            type |-> "general"])
    /\ celery' = IF outage # "broker" THEN celery + 1 ELSE celery
    /\ Respond(w, 201, "none")
    /\ UNCHANGED <<request, local, issued, db, catalog, orders, inventories,
                   outage, has_permission>>

\* ProductViewSet.destroy up to perform_destroy: IsAdminOrReadOnly, then
\* get_object()
ProductDestroy(w, req) ==
    /\ req.view = "product_destroy"
    /\ Receive(w, req)
    /\ IF ~IsAdminOrReadOnly(req.role)
       THEN Respond(w, 403, "Permission denied")
       ELSE IF req.pk \notin ProductIds
       THEN Respond(w, 404, "Not found")
       ELSE /\ pc' = [pc EXCEPT ![w] = "log_destroy"]
            /\ response' = [response EXCEPT ![w] = NoResponse]
    /\ UNCHANGED <<db, catalog, orders, inventories, audit_logs, notifications,
                   celery, outage, has_permission>>

\* perform_destroy: AuditLog.objects.create(action='delete_product')
ProductLogDestroy(w) ==
    /\ pc[w] = "log_destroy"
    /\ audit_logs' = Append(audit_logs,
           [user |-> request[w].role, action |-> "delete_product",
            model_name |-> "Product", object_id |-> request[w].pk])
    /\ pc' = [pc EXCEPT ![w] = "instance_delete"]
    /\ UNCHANGED <<request, local, response, issued, db, catalog, orders,
                   inventories, notifications, celery, outage, has_permission>>

\* perform_destroy: instance.delete(); destroy returns Response 204
ProductInstanceDelete(w) ==
    /\ Deleting(w, "product_destroy")
    /\ CascadeDelete({request[w].pk}, {})
    /\ Respond(w, 204, "none")
    /\ UNCHANGED <<request, local, issued, categories, audit_logs, notifications,
                   celery, outage, has_permission>>

\* a database the stock, order and inventory endpoints have filled: an income
\* of 2 at warehouse 1, a transfer of 1 to warehouse 2, one order and one
\* inventory count
InitStocked ==
    /\ stock_movements =
          <<[product |-> 1, warehouse |-> 1, operation |-> "in", quantity |-> 2,
             created_by |-> "none"]>>
    /\ stock_balances =
          <<[product |-> 1, warehouse |-> 1, quantity |-> 1],
            [product |-> 1, warehouse |-> 2, quantity |-> 1]>>
    /\ stock_transfers =
          <<[product |-> 1, from_warehouse |-> 1, to_warehouse |-> 2,
             quantity |-> 1, created_by |-> "logistician"]>>
    /\ orders =
          <<[product |-> 1, type |-> "supply", quantity |-> 1, status |-> "new",
             created_by |-> "logistician"]>>
    /\ inventories =
          <<InventorySave([warehouse |-> 1, product |-> 1,
                           recorded_quantity |-> 1, actual_quantity |-> 1,
                           discrepancy |-> 0, created_by |-> "warehouse_manager"])>>
    /\ pc = [w \in Workers |-> "idle"]
    /\ request = [w \in Workers |-> NoRequest]
    /\ local = [w \in Workers |-> NoLocal]
    /\ response = [w \in Workers |-> NoResponse]
    /\ issued = 0
    /\ products = [p \in Products |->
                      [sku |-> ProductSku[p], warehouse |-> ProductWarehouse[p],
                       min_stock |-> ProductMinStock[p],
                       category |-> ProductCategory[p]]]
    /\ warehouses = Warehouses
    /\ categories = Categories
    /\ audit_logs = <<>>
    /\ notifications = <<>>
    /\ celery = 0
    /\ outage = "none"
    /\ has_permission = [w \in Workers |-> FALSE]

\* the delete handlers and the product endpoints over the filled database
NextCatalog ==
    \/ \E w \in Workers : \E req \in DeleteRequests : WarehouseDelete(w, req)
    \/ \E w \in Workers : WarehouseInstanceDelete(w)
    \/ \E w \in Workers : \E req \in DeleteRequests : CategoryDelete(w, req)
    \/ \E w \in Workers : CategoryInstanceDelete(w)
    \/ \E w \in Workers : \E req \in DeleteRequests : TransferDelete(w, req)
    \/ \E w \in Workers : TransferInstanceDelete(w)
    \/ \E w \in Workers : \E req \in DeleteRequests : OrderDelete(w, req)
    \/ \E w \in Workers : OrderInstanceDelete(w)
    \/ \E w \in Workers : \E req \in DeleteRequests : InventoryDelete(w, req)
    \/ \E w \in Workers : InventoryInstanceDelete(w)
    \/ \E w \in Workers : \E req \in ProductCreateRequests : ProductCreate(w, req)
    \/ \E w \in Workers : ProductPerformCreate(w)
    \/ \E w \in Workers : ProductLogCreate(w)
    \/ \E w \in Workers : \E req \in DeleteRequests : ProductDestroy(w, req)
    \/ \E w \in Workers : ProductLogDestroy(w)
    \/ \E w \in Workers : ProductInstanceDelete(w)

SpecCatalog == InitStocked /\ [][NextCatalog]_vars

(* ------ OrderListCreateView, OrderDetailView, StockTransferDetailView.put ------ *)
\* Order.ORDER_TYPES, Order.STATUS_CHOICES
ORDER_TYPES == {"supply", "shipment"}

STATUS_CHOICES == {"new", "processing", "completed"}

\* the role test of the order endpoints and of StockTransferDetailView.put
CanPlan(role) == role \in {"admin", "warehouse_manager", "logistician"}

\* OrderSerializer.is_valid(): product must have a row, type and status are
\* choice fields, quantity has MinValueValidator(1)
OrderSerializerIsValid(req) ==
    /\ req.product \in ProductIds
    /\ req.type \in ORDER_TYPES
    /\ req.status \in STATUS_CHOICES
    /\ MinValueValidator(req.quantity)

\* bodies sent to the order endpoints (pk is the id in the URL of a PUT)
SampleOrder ==
    [view |-> "order_post", role |-> "logistician", pk |-> 0, type |-> "supply",
     product |-> 1, quantity |-> 1, status |-> "new"]

OrderPostRequests ==
    [view : {"order_post"}, role : {"logistician"}, pk : {0},
     type : {SampleOrder.type}, product : Products,
     quantity : {SampleOrder.quantity}, status : STATUS_CHOICES]
    \cup {[SampleOrder EXCEPT !.role = "clerk"],
          [SampleOrder EXCEPT !.product = AbsentId],
          [SampleOrder EXCEPT !.status = "cancelled"]}

OrderPutRequests ==
    [view : {"order_put"}, role : {"logistician"}, pk : {1},
     type : {SampleOrder.type}, product : Products,
     quantity : {SampleOrder.quantity}, status : STATUS_CHOICES]
    \cup {[SampleOrder EXCEPT !.view = "order_put", !.pk = 1, !.role = "clerk"],
          [SampleOrder EXCEPT !.view = "order_put", !.pk = 1, !.quantity = 0]}

\* the Order instance a request body describes
OrderOf(req, created_by) ==
    [product |-> req.product, type |-> req.type, quantity |-> req.quantity,
     status |-> req.status, created_by |-> created_by]

\* role test and serializer.is_valid()
OrderPost(w, req) ==
    /\ Receive(w, req)
    /\ IF ~CanPlan(req.role)
       THEN Respond(w, 403, "Permission denied")
       ELSE IF ~OrderSerializerIsValid(req)
       THEN Respond(w, 400, "invalid")
       ELSE /\ pc' = [pc EXCEPT ![w] = "order_create"]
            /\ response' = [response EXCEPT ![w] = NoResponse]
    /\ UNCHANGED <<db, catalog, orders, inventories, audit_logs, notifications,
                   celery, outage, has_permission>>

\* serializer.save(created_by=request.user): INSERT; notify_low_stock.delay();
\* Response 201
OrderPostSave(w) ==
    /\ pc[w] = "order_create"
    /\ orders' = Append(orders, OrderOf(request[w], request[w].role))
    /\ local' = [local EXCEPT ![w].instance = Len(orders) + 1]
    /\ NotifyAndRespond(w, 201, "Failed to create order")
    /\ UNCHANGED <<request, issued, db, catalog, inventories, audit_logs,
                   notifications, outage, has_permission>>

\* role test, Order.objects.get(pk=pk), serializer.is_valid()
OrderPut(w, req) ==
    /\ Receive(w, req)
    /\ IF ~CanPlan(req.role)
       THEN Respond(w, 403, "Permission denied")
       ELSE IF req.pk \notin OrderIds
       THEN Respond(w, 404, "Order not found")
       ELSE IF ~OrderSerializerIsValid(req)
       THEN Respond(w, 400, "invalid")
       ELSE /\ pc' = [pc EXCEPT ![w] = "order_update"]
            /\ response' = [response EXCEPT ![w] = NoResponse]
    /\ UNCHANGED <<db, catalog, orders, inventories, audit_logs, notifications,
                   celery, outage, has_permission>>

\* serializer.save(): the instance takes the fields of the body (status
\* included, whatever it was) and is written under its id;
\* notify_low_stock.delay(); Response 200
OrderPutSave(w) ==
    /\ pc[w] = "order_update"
    /\ orders' = [orders EXCEPT ![request[w].pk] =
                      OrderOf(request[w], @.created_by)]
    /\ local' = [local EXCEPT ![w].instance = request[w].pk]
    /\ NotifyAndRespond(w, 200, "Failed to update order")
    /\ UNCHANGED <<request, issued, db, catalog, inventories, audit_logs,
                   notifications, outage, has_permission>>

\* bodies PUT to a stock transfer
TransferPutRequests ==
    [view : {"transfer_put"}, role : {"logistician"}, pk : {1},
     product : Products, warehouse : {SampleTransfer.warehouse},
     to_warehouse : Warehouses, quantity : Quantities]
    \cup {[view |-> "transfer_put", role |-> "clerk", pk |-> 1, product |-> 1,
           warehouse |-> 1, to_warehouse |-> 2, quantity |-> 1],
          [view |-> "transfer_put", role |-> "logistician", pk |-> 1,
           product |-> 1, warehouse |-> 1, to_warehouse |-> 2, quantity |-> 0]}

\* StockTransferDetailView.put: role test, StockTransfer.objects.get(pk=pk),
\* serializer.is_valid()
TransferPut(w, req) ==
    /\ Receive(w, req)
    /\ IF ~CanPlan(req.role)
       THEN Respond(w, 403, "Permission denied")
       ELSE IF req.pk \notin TransferIds
       THEN Respond(w, 404, "Transfer not found")
       ELSE IF ~StockTransferSerializerIsValid(req)
       THEN Respond(w, 400, "invalid")
       ELSE /\ pc' = [pc EXCEPT ![w] = "transfer_update"]
            /\ response' = [response EXCEPT ![w] = NoResponse]
    /\ UNCHANGED <<db, catalog, orders, inventories, audit_logs, notifications,
                   celery, outage, has_permission>>

\* serializer.save(): the StockTransfer row takes the fields of the body;
\* cache.delete_pattern, notify_low_stock.delay(); Response 200.  No
\* StockBalance is read or written.
TransferPutSave(w) ==
    /\ pc[w] = "transfer_update"
    /\ stock_transfers' =
          [stock_transfers EXCEPT ![request[w].pk] =
              [product |-> request[w].product,
               from_warehouse |-> request[w].warehouse,
               to_warehouse |-> request[w].to_warehouse,
               quantity |-> request[w].quantity,
               created_by |-> @.created_by]]
    /\ local' = [local EXCEPT ![w].instance = request[w].pk]
    /\ IF outage = "none"
       THEN /\ celery' = celery + 1
            /\ Respond(w, 200, "none")
       ELSE /\ UNCHANGED celery
            /\ Respond(w, 500, "Failed to update transfer")
    /\ UNCHANGED <<request, issued, stock_balances, stock_movements, catalog,
                   orders, inventories, audit_logs, notifications, outage,
                   has_permission>>

\* the inventory bodies sent along with the orders: every pair of counts, on
\* the inventory record of the filled database, the supplied discrepancy
\* (which Inventory.save() overwrites) as in the sample
RecordInventoryRequests ==
    {r \in InventoryPostRequests \cup InventoryPutRequests :
        /\ r.discrepancy = SampleInventory.discrepancy
        /\ r.pk \in {SampleInventory.pk} \cup InventoryIds}

\* the order and inventory endpoints over the filled database
NextRecords ==
    \/ \E w \in Workers : \E req \in OrderPostRequests : OrderPost(w, req)
    \/ \E w \in Workers : OrderPostSave(w)
    \/ \E w \in Workers : \E req \in OrderPutRequests : OrderPut(w, req)
    \/ \E w \in Workers : OrderPutSave(w)
    \/ \E w \in Workers : \E req \in DeleteRequests : OrderDelete(w, req)
    \/ \E w \in Workers : OrderInstanceDelete(w)
    \/ \E w \in Workers : \E req \in RecordInventoryRequests :
          req.view = "inventory_post" /\ InventoryPost(w, req)
    \/ \E w \in Workers : InventoryPostSave(w)
    \/ \E w \in Workers : \E req \in RecordInventoryRequests :
          req.view = "inventory_put" /\ InventoryPut(w, req)
    \/ \E w \in Workers : InventoryPutSave(w)
    \/ \E w \in Workers : \E req \in DeleteRequests : InventoryDelete(w, req)
    \/ \E w \in Workers : InventoryInstanceDelete(w)

SpecRecords == InitStocked /\ [][NextRecords]_vars

\* the endpoints of a stock transfer record over the filled database
NextTransferRecords ==
    \/ \E w \in Workers : \E req \in TransferPutRequests : TransferPut(w, req)
    \/ \E w \in Workers : TransferPutSave(w)
    \/ \E w \in Workers : \E req \in DeleteRequests : TransferDelete(w, req)
    \/ \E w \in Workers : TransferInstanceDelete(w)

SpecTransferRecords == InitStocked /\ [][NextTransferRecords]_vars

(* ------------------- notify_low_stock (api/tasks.py) ------------------- *)
\* the names api/tasks.py binds at module level (its imports and its tasks)
TasksModuleNames ==
    {"shared_task", "send_mail", "Product", "Notification", "settings", "csv",
     "StringIO", "export_stock_balance_to_csv", "notify_low_stock"}

\* the fields of Product
ProductFields ==
    {"id", "name", "sku", "unit", "description", "min_stock", "warehouse",
     "category", "created_at", "updated_at"}

\* Product.objects.filter(quantity__lte=models.F('min_stock')) raises:
\* NameError, because the module binds no name `models`, and the lookup
\* `quantity` would be a FieldError, because Product has no such field
NotifyLowStockRaises ==
    "models" \notin TasksModuleNames \/ "quantity" \notin ProductFields

\* the Celery worker runs one queued notify_low_stock task.  A run that raises
\* is recorded as failed and not retried; otherwise each product the filter
\* selects gets Notification.objects.create(user=..., message=...), whose type
\* is the field's default 'general'.
NotifyLowStockTask ==
    /\ celery > 0
    /\ celery' = celery - 1
    /\ notifications' =
          IF NotifyLowStockRaises THEN notifications
          ELSE notifications \o
                   [i \in 1..Len(products) |->
                        [user |-> "none", message |-> i, type |-> "general"]]
    /\ UNCHANGED <<db, pc, request, local, response, issued, catalog, orders,
                   inventories, audit_logs, outage, has_permission>>

Next ==
    \/ \E w \in Workers : \E req \in MovementRequests : MovementPost(w, req)
    \/ \E w \in Workers : MovementCheckBalance(w)
    \/ \E w \in Workers : MovementSerializerSave(w)
    \/ \E w \in Workers : MovementGetOrCreate(w)
    \/ \E w \in Workers : MovementBalanceSave(w)
    \/ \E w \in Workers : \E req \in TransferRequests : TransferPost(w, req)
    \/ \E w \in Workers : TransferCheckBalance(w)
    \/ \E w \in Workers : TransferSerializerSave(w)
    \/ \E w \in Workers : TransferGetOrCreateFrom(w)
    \/ \E w \in Workers : TransferGetOrCreateTo(w)
    \/ \E w \in Workers : TransferFromSave(w)
    \/ \E w \in Workers : TransferToSave(w)

Spec == Init /\ [][Next]_vars

\* the API server together with the Celery worker that runs the queued tasks
NextCelery == Next \/ NotifyLowStockTask

SpecCelery == Init /\ [][NextCelery]_vars

\* the cache server (django-redis, cache.delete_pattern) or the Celery broker
\* (notify_low_stock.delay) becomes unreachable
Outage(o) ==
    /\ outage = "none"
    /\ outage' = o
    /\ UNCHANGED <<db, pc, request, local, response, issued, catalog, orders,
                   inventories, audit_logs, notifications, celery,
                   has_permission>>

\* the stock endpoints while a collaborator may go down
NextFault == Next \/ \E o \in {"cache", "broker"} : Outage(o)

SpecFault == Init /\ [][NextFault]_vars

TypeOK ==
    /\ \A i \in 1..Len(stock_balances) : stock_balances[i].quantity \in Int
    /\ issued \in 0..MaxRequests

(* ===================== properties of the stock core ==================== *)
RECURSIVE QuantitySum(_, _)
\* sum of the quantity fields of the rows of table whose ids are in ids
QuantitySum(table, ids) ==
    IF ids = {} THEN 0
    ELSE LET i == CHOOSE x \in ids : TRUE
         IN  table[i].quantity + QuantitySum(table, ids \ {i})

\* total quantity of the ledger entries of one operation at one (product, warehouse)
LedgerSum(p, wh, op) ==
    QuantitySum(stock_movements,
        {i \in 1..Len(stock_movements) :
            /\ stock_movements[i].product = p
            /\ stock_movements[i].warehouse = wh
            /\ stock_movements[i].operation = op})

TransfersOut(p, wh) ==
    QuantitySum(stock_transfers,
        {i \in 1..Len(stock_transfers) :
            stock_transfers[i].product = p /\ stock_transfers[i].from_warehouse = wh})

TransfersIn(p, wh) ==
    QuantitySum(stock_transfers,
        {i \in 1..Len(stock_transfers) :
            stock_transfers[i].product = p /\ stock_transfers[i].to_warehouse = wh})

\* no request is being handled
Quiescent == \A w \in Workers : Free(w)

\* worker w has finished a request of the given endpoint
Finished(w, view) == pc[w] = "done" /\ request[w].view = view

\* worker w takes a step of its handler
Steps(w) == pc'[w] # pc[w] \/ request'[w] # request[w]

\* C1: once all requests have ended, whatever their order and interleaving,
\* the balance of every (product, warehouse) pair (0 without a row) equals
\* ledger 'in' minus ledger 'out' minus transfers out plus transfers in.
C1_BalanceEqualsLedgerNet ==
    Quiescent =>
        \A p \in Products : \A wh \in Warehouses :
            BalanceTotal(p, wh) =
                LedgerSum(p, wh, "in") - LedgerSum(p, wh, "out")
                    - TransfersOut(p, wh) + TransfersIn(p, wh)

\* C2: in every reachable state every StockBalance quantity is >= 0.
C2_QuantityNeverNegative ==
    \A i \in 1..Len(stock_balances) : stock_balances[i].quantity >= 0

\* C2 witness: an outcome or transfer raced with another request, computed a
\* negative quantity for its row, and the write was refused.
C2_OverdrawRefused ==
    \E w \in Workers :
        /\ pc[w] = "done"
        /\ response[w].status = 500
        /\ \/ local[w].stock_balance.quantity < 0
           \/ local[w].from_balance.quantity < 0

\* C3: two outcome requests of quantity q each, handled by the two workers
\* against one pair that has only ever received Q units (no transfers, no other
\* outcome), are not both reported successful unless 2 <= floor(Q / q).
C3_ConcurrentOutcomesBounded ==
    \A w1 \in Workers : \A w2 \in Workers \ {w1} :
        ( /\ Finished(w1, "movement") /\ Finished(w2, "movement")
          /\ request[w1].operation = "out" /\ request[w2].operation = "out"
          /\ request[w1].product = request[w2].product
          /\ request[w1].warehouse = request[w2].warehouse
          /\ request[w1].quantity = request[w2].quantity
          /\ response[w1].status = 201 /\ response[w2].status = 201
          /\ stock_transfers = <<>>
          /\ \A i \in 1..Len(stock_movements) :
                ( /\ stock_movements[i].operation = "out"
                  /\ stock_movements[i].product = request[w1].product
                  /\ stock_movements[i].warehouse = request[w1].warehouse )
                => i \in {local[w1].instance, local[w2].instance} )
        => 2 <= LedgerSum(request[w1].product, request[w1].warehouse, "in")
                    \div request[w1].quantity

\* C4: when a movement request has ended, its ledger entry is persisted exactly
\* when its balance write is persisted.
C4_MovementAtomic ==
    \A w \in Workers :
        Finished(w, "movement") =>
            ((local[w].instance # 0) <=> (local[w].saves = 1))

\* C5: when a transfer request (between two different warehouses) has ended,
\* either the StockTransfer is recorded and both balance writes are persisted,
\* or none of the three is.
C5_TransferAtomic ==
    \A w \in Workers :
        (Finished(w, "transfer") /\ request[w].warehouse # request[w].to_warehouse) =>
            \/ local[w].instance # 0 /\ local[w].saves = 2
            \/ local[w].instance = 0 /\ local[w].saves = 0

\* C6: an outcome request whose quantity exceeds the balance of its pair at the
\* sufficiency test is rejected as insufficient stock by that step, which
\* leaves ledger, transfers and balance rows untouched; a request rejected so
\* has written nothing.
C6_OutcomeAboveBalanceRejected ==
    [][\A w \in Workers :
          ( /\ request[w].view = "movement"
            /\ request[w].operation = "out"
            /\ pc[w] = "check_balance"
            /\ Steps(w)
            /\ request[w].quantity >
                  BalanceTotal(request[w].product, request[w].warehouse) )
          => /\ pc'[w] = "done"
             /\ response'[w] = [status |-> 400, error |-> "Insufficient stock"]
             /\ local'[w].instance = 0 /\ local'[w].saves = 0
             /\ db' = db]_vars

\* C6 witness: an outcome larger than the balance of its pair has been rejected.
C6_OutcomeRejected ==
    \E w \in Workers :
        /\ Finished(w, "movement")
        /\ request[w].operation = "out"
        /\ response[w].error = "Insufficient stock"
        /\ request[w].quantity >
              BalanceTotal(request[w].product, request[w].warehouse)

\* the balances of all pairs other than (p, wh) are the same before and after
OthersUnchanged(p, wh) ==
    \A p2 \in Products : \A wh2 \in Warehouses :
        <<p2, wh2>> # <<p, wh>> => BalanceTotal(p2, wh2)' = BalanceTotal(p2, wh2)

\* C7: a successful transfer of q between two different warehouses lowers the
\* source balance by exactly q when it writes the source row, raises the
\* destination balance by exactly q when it writes the destination row,
\* touches no other balance, and records exactly one StockTransfer.
C7_TransferMovesExactlyQ ==
    [][\A w \in Workers :
          ( /\ request[w].view = "transfer"
            /\ request[w].warehouse # request[w].to_warehouse
            /\ Steps(w) )
          => /\ Len(stock_transfers') - Len(stock_transfers) =
                    (IF pc[w] = "serializer_save" THEN 1 ELSE 0)
             /\ (pc[w] = "from_save" /\ pc'[w] = "to_save") =>
                    /\ BalanceTotal(request[w].product, request[w].warehouse)' =
                          BalanceTotal(request[w].product, request[w].warehouse)
                              - request[w].quantity
                    /\ OthersUnchanged(request[w].product, request[w].warehouse)
             /\ (pc[w] = "to_save" /\ response'[w].status = 201) =>
                    /\ BalanceTotal(request[w].product, request[w].to_warehouse)' =
                          BalanceTotal(request[w].product, request[w].to_warehouse)
                              + request[w].quantity
                    /\ OthersUnchanged(request[w].product, request[w].to_warehouse)]_vars

\* C8: a transfer request whose source and destination are the same warehouse
\* never gets past validation: it ends rejected and records no StockTransfer.
C8_SameWarehouseRejected ==
    \A w \in Workers :
        ( /\ request[w].view = "transfer"
          /\ request[w].warehouse = request[w].to_warehouse )
        => /\ pc[w] = "done"
           /\ response[w].status \in {400, 403}
           /\ local[w].instance = 0

\* C9: a valid income request from a permitted role is answered 201, adds
\* exactly one ledger entry, and its balance write raises the balance of its
\* pair by exactly q (from 0 when the row is new).
C9_IncomeRaisesBalanceByQ ==
    [][\A w \in Workers :
          ( /\ request'[w].view = "movement"
            /\ request'[w].operation = "in"
            /\ CanManageProducts(request'[w].role)
            /\ StockMovementSerializerIsValid(request'[w])
            /\ Steps(w) )
          => /\ pc'[w] = "done" => response'[w].status = 201
             /\ Len(stock_movements') - Len(stock_movements) =
                    (IF pc[w] = "serializer_save" THEN 1 ELSE 0)
             /\ pc[w] = "balance_save" =>
                    BalanceTotal(request[w].product, request[w].warehouse)' =
                        BalanceTotal(request[w].product, request[w].warehouse)
                            + request[w].quantity]_vars

\* C10: the bulk low-stock listing holds exactly the products whose balance at
\* their own warehouse (0 without a row) is at or below their min_stock.
C10_LowStockListing ==
    LowStockView =
        {p \in ProductIds :
            BalanceTotal(p, products[p].warehouse) <= products[p].min_stock}

(* ================= notifications, audit trail, records ================= *)
\* the quantity a finished request wrote to the balance row it lowered or raised
WrittenQuantities(w) ==
    IF request[w].view = "movement" THEN {local[w].stock_balance.quantity}
    ELSE {local[w].from_balance.quantity, local[w].to_balance.quantity}

\* C11: once every dispatched notify_low_stock task has run, a movement or
\* transfer that was committed (answered 201) and left the balance of a pair it
\* touched at or below the product's min_stock is followed by a Notification of
\* type low_stock about that product.
C11_LowStockNotified ==
    \A w \in Workers :
        ( /\ pc[w] = "done"
          /\ request[w].view \in {"movement", "transfer"}
          /\ request[w].view = "movement" => request[w].operation \in {"in", "out"}
          /\ response[w].status = 201
          /\ celery = 0
          /\ \E q \in WrittenQuantities(w) :
                q <= products[request[w].product].min_stock )
        => \E i \in 1..Len(notifications) :
              /\ notifications[i].type = "low_stock"
              /\ notifications[i].message = request[w].product

\* C12: when a movement or transfer reports success (201), an AuditLog entry
\* describing it (its model name and the id of the row it recorded) has been
\* written.
C12_CommittedOperationsAudited ==
    \A w \in Workers :
        ( /\ pc[w] = "done"
          /\ request[w].view \in {"movement", "transfer"}
          /\ response[w].status = 201 )
        => \E i \in 1..Len(audit_logs) :
              /\ audit_logs[i].model_name =
                    (IF request[w].view = "movement" THEN "StockMovement"
                                                     ELSE "StockTransfer")
              /\ audit_logs[i].object_id = local[w].instance

\* C13: every save of an Inventory record, create or update, stores
\* discrepancy = actual_quantity - recorded_quantity whatever discrepancy the
\* request supplied, and an update that keeps the recorded and actual
\* quantities of the row keeps its discrepancy.
C13_DiscrepancyDerived ==
    [][\A w \in Workers :
          (pc[w] \in {"inventory_create", "inventory_update"} /\ Steps(w))
          => LET id == local'[w].instance
                 new == inventories'[id]
             IN  /\ new.recorded_quantity = request[w].recorded_quantity
                 /\ new.actual_quantity = request[w].actual_quantity
                 /\ new.discrepancy =
                        request[w].actual_quantity - request[w].recorded_quantity
                 /\ ( /\ pc[w] = "inventory_update"
                      /\ inventories[id].recorded_quantity = new.recorded_quantity
                      /\ inventories[id].actual_quantity = new.actual_quantity )
                    => new.discrepancy = inventories[id].discrepancy]_vars

\* C13 witness: two updates have saved the same record with the same recorded
\* and actual quantities (so the later save found them in the row), each with a
\* supplied discrepancy that is not their difference, and the row holds the
\* difference.
C13_ResavedWithOtherDiscrepancy ==
    \E w1 \in Workers : \E w2 \in Workers \ {w1} :
        /\ \A w \in {w1, w2} :
              /\ pc[w] = "done"
              /\ request[w].view = "inventory_put"
              /\ response[w].status = 200
              /\ request[w].discrepancy #
                    request[w].actual_quantity - request[w].recorded_quantity
        /\ request[w2].pk = request[w1].pk
        /\ request[w2].recorded_quantity = request[w1].recorded_quantity
        /\ request[w2].actual_quantity = request[w1].actual_quantity
        /\ inventories[request[w1].pk].discrepancy =
              request[w1].actual_quantity - request[w1].recorded_quantity

\* worker w has asked the guard about its request
Guarded(w) == pc[w] = "done" /\ request[w].view = "guarded"

\* C14: for an authenticated user who is not a superuser, the guard allows the
\* write actions (create, update, partial_update, destroy) exactly when the
\* role is admin, warehouse_manager or clerk.
C14_WriteRoles ==
    \A w \in Workers :
        ( /\ Guarded(w)
          /\ request[w].is_authenticated
          /\ ~request[w].is_superuser
          /\ request[w].action \in {"create", "update", "partial_update", "destroy"} )
        => (has_permission[w] <=>
                request[w].role \in {"admin", "warehouse_manager", "clerk"})

\* C15: the guard denies every request of an unauthenticated user and allows
\* every request of a superuser and of a user whose role is admin, whatever
\* the action.
C15_AdminAlwaysAllowed ==
    \A w \in Workers :
        Guarded(w) =>
            /\ ~request[w].is_authenticated => ~has_permission[w]
            /\ ( /\ request[w].is_authenticated
                 /\ (request[w].is_superuser \/ request[w].role = "admin") )
               => has_permission[w]

(* ============ properties of deletes, failures and the catalogue ======== *)
\* worker w is handed a request in this step
Receives(w) ==
    /\ issued' = issued + 1
    /\ Free(w)
    /\ \A v \in Workers : v < w => ~Free(v)

\* the delete endpoints of warehouses, categories, transfers, orders and
\* inventory records
RecordDeletes == {"warehouse_delete", "category_delete", "transfer_delete",
                  "order_delete", "inventory_delete"}

\* C16: a delete of a warehouse, category, stock transfer, order or inventory
\* record sent by a user whose role is not admin is answered 403 "Permission
\* denied" at once; it never gets to instance.delete(), and the step that
\* answers it changes no table: no row is removed and no audit entry added.
C16_NonAdminDeleteDenied ==
    [][\A w \in Workers :
          /\ ( /\ Receives(w)
               /\ request'[w].view \in RecordDeletes
               /\ request'[w].role # "admin" )
             => /\ pc'[w] = "done"
                /\ response'[w] = [status |-> 403, error |-> "Permission denied"]
                /\ UNCHANGED <<db, catalog, orders, inventories, audit_logs,
                               notifications>>
          /\ ( /\ pc'[w] = "instance_delete"
               /\ request'[w].view \in RecordDeletes )
             => request'[w].role = "admin"]_vars

\* Scenario D: a clerk's delete of a warehouse that exists has been answered
\* 403 and every table still holds the rows it started with
C16_ClerkDeleteDenied ==
    \E w \in Workers :
        /\ Finished(w, "warehouse_delete")
        /\ request[w].role = "clerk"
        /\ response[w].status = 403
        /\ request[w].pk \in warehouses
        /\ \E i \in 1..Len(stock_balances) :
               stock_balances[i].warehouse = request[w].pk
        /\ audit_logs = <<>>

\* C17: a movement or transfer of a permitted role that names a product or a
\* warehouse without a row ends with 404 (not found), not with the 400 of a
\* validation error, and has recorded nothing.
C17_AbsentIdNotFound ==
    \A w \in Workers :
        ( /\ pc[w] = "done"
          /\ request[w].view \in {"movement", "transfer"}
          /\ response[w].status # 403
          /\ \/ request[w].product \notin ProductIds
             \/ request[w].warehouse \notin warehouses )
        => /\ response[w].status = 404
           /\ local[w].instance = 0

\* C18: a movement whose ledger row and balance update are written, or a
\* transfer whose record and two balance updates are written, is answered
\* 201 even when the cache invalidation or the task dispatch after them fails.
C18_SideEffectFailureStillSucceeds ==
    \A w \in Workers :
        ( /\ pc[w] = "done"
          /\ local[w].instance # 0
          /\ \/ /\ request[w].view = "movement"
                /\ request[w].operation \in {"in", "out"}
                /\ local[w].saves = 1
             \/ request[w].view = "transfer" /\ local[w].saves = 2 )
        => response[w].status = 201

\* C19: a row of the stock-movement ledger, once written, is never changed
\* or removed by any step, the deletes of products and warehouses included.
C19_LedgerAppendOnly ==
    [][\A i \in 1..Len(stock_movements) :
          /\ i <= Len(stock_movements')
          /\ stock_movements'[i] = stock_movements[i]]_vars

\* C20: no two products share an SKU, and a product creation answered 201
\* (its warehouse still there) has added a product with its SKU: a creation
\* whose SKU is taken, also by a concurrent creation, is not reported as a
\* success.
C20_SkuUnique ==
    /\ \A p, q \in ProductIds : products[p].sku = products[q].sku => p = q
    /\ \A w \in Workers :
          ( /\ Finished(w, "product_create")
            /\ response[w].status = 201
            /\ request[w].warehouse \in warehouses )
          => local[w].instance # 0

(* ============ properties of rows, orders and the listings ============== *)
\* C21: no two StockBalance rows have the same (product, warehouse) pair,
\* also when the get_or_create calls of concurrent requests both miss the row.
C21_OneBalanceRowPerPair ==
    \A i, j \in 1..Len(stock_balances) :
        ( /\ stock_balances[i] # DeletedBalance
          /\ stock_balances[i].product = stock_balances[j].product
          /\ stock_balances[i].warehouse = stock_balances[j].warehouse )
        => i = j

\* two first-time requests on one pair: worker w found no row and is about
\* to INSERT, while the row of the pair has meanwhile been created by the
\* get_or_create of worker v
C21_ConcurrentFirstTime ==
    \E w, v \in Workers :
        /\ w # v
        /\ pc[w] = "create"
        /\ pc[v] = "balance_save"
        /\ request[v].product = request[w].product
        /\ request[v].warehouse = request[w].warehouse
        /\ local[v].stock_balance.id
               \in BalanceRows(request[w].product, request[w].warehouse)

\* C22: two income movements on one (product, warehouse) pair that overlap
\* in time (one on each worker) and both answer 201 leave the balance of the
\* pair, which had no stock before, at q1 + q2.
C22_ConcurrentIncomesBothCount ==
    ( /\ issued = 2
      /\ \A w \in Workers :
            /\ Finished(w, "movement")
            /\ request[w].operation = "in"
            /\ response[w].status = 201
            /\ request[w].product = request[1].product
            /\ request[w].warehouse = request[1].warehouse )
    => BalanceTotal(request[1].product, request[1].warehouse)
          = request[1].quantity + request[2].quantity

\* the place of a status in new -> processing -> completed
StatusRank(status) ==
    CASE status = "new" -> 1
      [] status = "processing" -> 2
      [] OTHER -> 3

\* C23: no step moves an order to an earlier status: the status of an order
\* that stays in the table keeps or raises its place in
\* new -> processing -> completed.
C23_StatusOnlyAdvances ==
    [][\A i \in OrderIds :
          orders'[i] # DeletedOrder
          => StatusRank(orders'[i].status) >= StatusRank(orders[i].status)]_vars

\* the create, update and delete endpoints of orders and inventory records
RecordViews == {"order_post", "order_put", "order_delete",
                "inventory_post", "inventory_put", "inventory_delete"}

\* C24: no step of an order or inventory create, update or delete changes a
\* StockBalance row or the stock-movement ledger.
C24_RecordsLeaveStockAlone ==
    [][\A w \in Workers :
          (Steps(w) /\ request'[w].view \in RecordViews)
          => UNCHANGED <<stock_balances, stock_movements>>]_vars

\* an inventory record with a discrepancy has been created while an order
\* was set to completed, and the balance counted is what it was
C24_RecordsWritten ==
    \E w, v \in Workers :
        /\ Finished(w, "inventory_post")
        /\ response[w].status = 201
        /\ inventories[local[w].instance].discrepancy # 0
        /\ Finished(v, "order_put")
        /\ response[v].status = 200
        /\ orders[request[v].pk].status = "completed"
        /\ BalanceTotal(request[w].product, request[w].warehouse) = 1

\* C25: a movement whose operation is not 'in' or 'out' ends with the 400 of
\* a validation error and has written no ledger entry.
C25_OtherOperationRejected ==
    \A w \in Workers :
        ( /\ Finished(w, "movement")
          /\ response[w].status # 403
          /\ request[w].operation \notin {"in", "out"} )
        => /\ response[w].status = 400
           /\ local[w].instance = 0

\* C26: every ledger entry names the user that sent the movement as its
\* creator.
C26_LedgerEntryHasCreator ==
    \A i \in 1..Len(stock_movements) :
        stock_movements[i] # DeletedMovement
        => stock_movements[i].created_by # "none"

\* C27: a request refused by a role test is answered 403.
C27_RoleRefusalIs403 ==
    \A w \in Workers :
        (pc[w] = "done" /\ response[w].error = "Permission denied")
        => response[w].status = 403

\* the quantity of product p over all warehouses
TotalQuantity(p) ==
    QuantitySum(stock_balances,
        {i \in 1..Len(stock_balances) : stock_balances[i].product = p})

\* the ledger entries of product p of one operation, over all warehouses
LedgerTotal(p, op) ==
    QuantitySum(stock_movements,
        {i \in 1..Len(stock_movements) :
            stock_movements[i].product = p /\ stock_movements[i].operation = op})

\* C28: transfers leave the quantity of a product over all warehouses as it
\* is.  Stated for requests handled one after the other (the second worker
\* never used), where movements change the total by exactly their quantity:
\* the total then equals incomes minus outcomes whatever transfers ran.
C28_TransfersKeepTotal ==
    ( /\ Quiescent
      /\ \A v \in Workers : pc[v] = "idle" \/ \A u \in Workers : v <= u )
    => \A p \in ProductIds :
          TotalQuantity(p) = LedgerTotal(p, "in") - LedgerTotal(p, "out")

\* C29: no step of an update or a delete of a StockTransfer record changes
\* a StockBalance row.
C29_TransferRecordLeavesBalances ==
    [][\A w \in Workers :
          (Steps(w) /\ request'[w].view \in {"transfer_put", "transfer_delete"})
          => UNCHANGED stock_balances]_vars

\* a transfer record had its quantity changed and was deleted, and both
\* balances it had moved are what they were
C29_TransferRewrittenAndDeleted ==
    \E w, v \in Workers :
        /\ Finished(w, "transfer_put")
        /\ response[w].status = 200
        /\ request[w].quantity = 2
        /\ Finished(v, "transfer_delete")
        /\ response[v].status = 204
        /\ BalanceTotal(request[w].product, request[w].warehouse) = 1
        /\ \E wh \in warehouses :
               /\ wh # request[w].warehouse
               /\ BalanceTotal(request[w].product, wh) = 1

\* C30: the two low-stock listings, called without a warehouse filter, hold
\* the same products.
C30_ListingsAgree == ProductLowStock = LowStockView

====
